---- MODULE Spec2Model ----
(***************************************************************************)
(* State machine of synapse/state.py: StateHandler, its chained-deferred   *)
(* per-key lock, handle_new_event, handle_new_state and the recursive      *)
(* conflict resolver with its three ordered tiebreak comparators.          *)
(*                                                                         *)
(* Scheduling is Twisted's: one thread, a call runs until it yields an     *)
(* unfired Deferred.  Every action below is one such run: from a call's    *)
(* entry, or from the firing of the Deferred it waits for, up to its next  *)
(* suspension or its end, including the waiters that its release deferred  *)
(* resumes synchronously.                                                  *)
(*                                                                         *)
(* Calls are numbered in the order in which their _lock call executes.     *)
(***************************************************************************)
EXTENDS Integers, Sequences, FiniteSets, TLC

\* Number of handle_new_state / handle_new_event calls made in a behaviour.
NCalls == 3

\* Number of those calls in a behaviour of SeqSpec, where they are made one
\* after the other.
NSeq == 2

Calls == 1..NCalls

\* "No deferred" (dict.get returning None) and "no PDU" (None).
NoCall == 0

NoPdu == "none"

NoStr == << >>

\* KeyStateTuple values: two state slots.
Keys == {"k1", "k2"}

(***************************************************************************)
(* The PDUs that exist in the federation.  Strings are sequences of        *)
(* characters, so that pdu_id + origin is a real concatenation.  The       *)
(* prev_state_id / prev_state_origin pair names the PDU a PDU supersedes.  *)
(*                                                                         *)
(*   k1:   R <- P1        R <- P2        R <- P3 <- P4        R <- P5      *)
(*   k2:   S <- T                                                          *)
(***************************************************************************)
Names == {"R", "P1", "P2", "P3", "P4", "P5", "S", "T"}

PDU ==
  [n \in Names |->
     CASE n = "R"  -> [pdu_id |-> <<"e">>, origin |-> <<"e">>, key |-> "k1",
                       depth |-> 0, power_level |-> 0,
                       prev_state_id |-> NoStr, prev_state_origin |-> NoStr]
       [] n = "P1" -> [pdu_id |-> <<"a">>, origin |-> <<"b", "c">>, key |-> "k1",
                       depth |-> 1, power_level |-> 10,
                       prev_state_id |-> <<"e">>, prev_state_origin |-> <<"e">>]
       [] n = "P2" -> [pdu_id |-> <<"a", "b">>, origin |-> <<"c">>, key |-> "k1",
                       depth |-> 1, power_level |-> 10,
                       prev_state_id |-> <<"e">>, prev_state_origin |-> <<"e">>]
       [] n = "P3" -> [pdu_id |-> <<"b">>, origin |-> <<"c">>, key |-> "k1",
                       depth |-> 1, power_level |-> 10,
                       prev_state_id |-> <<"e">>, prev_state_origin |-> <<"e">>]
       [] n = "P4" -> [pdu_id |-> <<"d">>, origin |-> <<"e">>, key |-> "k1",
                       depth |-> 2, power_level |-> 10,
                       prev_state_id |-> <<"b">>, prev_state_origin |-> <<"c">>]
       [] n = "P5" -> [pdu_id |-> <<"c">>, origin |-> <<"a">>, key |-> "k1",
                       depth |-> 1, power_level |-> 20,
                       prev_state_id |-> <<"e">>, prev_state_origin |-> <<"e">>]
       [] n = "S"  -> [pdu_id |-> <<"e">>, origin |-> <<"a">>, key |-> "k2",
                       depth |-> 0, power_level |-> 0,
                       prev_state_id |-> NoStr, prev_state_origin |-> NoStr]
       [] n = "T"  -> [pdu_id |-> <<"d">>, origin |-> <<"a">>, key |-> "k2",
                       depth |-> 1, power_level |-> 10,
                       prev_state_id |-> <<"e">>, prev_state_origin |-> <<"a">>]]

\* The PDU with identity (pdu_origin, pdu_id), NoPdu when there is none.
PduAt(pdu_origin, pdu_id) ==
  LET hit == {n \in Names : PDU[n].pdu_id = pdu_id /\ PDU[n].origin = pdu_origin}
  IN  IF hit = {} THEN NoPdu ELSE CHOOSE n \in hit : TRUE

\* The PDU a PDU supersedes.
PrevOf(n) == PduAt(PDU[n].prev_state_origin, PDU[n].prev_state_id)

RECURSIVE Ancestry(_)
\* A PDU and everything it descends from.
Ancestry(n) == IF n = NoPdu THEN {} ELSE {n} \cup Ancestry(PrevOf(n))

\* What new_state_callback is: absent (None), a callback returning None, or
\* a callback returning a callable.
Callbacks == {"none", "unit", "callable"}

\* A callback that starts its update of CurrentState and returns the
\* unfired Deferred of that update.
AsyncCallbacks == {"async"}

VARIABLES
  pc,                \* where each call is: idle, waiting, tree, fetch, cb, done
  kind,              \* "state" (handle_new_state) or "event" (handle_new_event)
  key,               \* the call's KeyStateTuple
  pdu,               \* new_pdu of a handle_new_state call
  cbk,               \* its new_state_callback
  old,               \* old_deferred, while the call waits for it in _lock
  fired,             \* whether the call's new_deferred has fired
  update_deferreds,  \* self._update_deferreds: key -> the call whose
                     \* new_deferred was filed last
  entered,           \* per key, the calls in the order they passed _lock
  have,              \* PDUs the persistence service holds
  current,           \* CurrentState per slot
  tree,              \* the tree the call's last get_unresolved_state_tree gave
  nfetch,            \* get_pdu requests the call has issued
  ntree,             \* get_unresolved_state_tree queries of the call that
                     \* have returned or failed
  ncmp,              \* tiebreak comparators the call has evaluated
  ncb,               \* times the call has invoked new_state_callback
  fetchReq,          \* the call's last get_pdu request
  mutated,           \* whether the call has changed CurrentState
  pending,           \* CurrentState updates that callbacks have started and
                     \* that have not been applied yet
  gap,               \* the number of missing predecessors between the call's
                     \* branches and their common ancestor when it was made
  last,              \* the handle_new_state call that ended last, as its
                     \* caller saw it
  lastEvent          \* the handle_new_event call that ended last, if no
                     \* handle_new_state call has been made since

vars == <<pc, kind, key, pdu, cbk, old, fired, update_deferreds, entered, have,
          current, tree, nfetch, ntree, ncmp, ncb, fetchReq, mutated, pending,
          gap, last, lastEvent>>

NoTree == << << >>, << >> >>

NoReq == [destination |-> NoStr, pdu_origin |-> NoStr, pdu_id |-> NoStr,
          outlier |-> FALSE]

\* No handle_new_state call has ended yet.
NoLast ==
  [call |-> NoCall, key |-> "none", pdu |-> NoPdu, cbk |-> "none",
   tree |-> NoTree, verdict |-> "none", result |-> "none", nfetch |-> 0,
   ntree |-> 0, ncmp |-> 0, ncb |-> 0, mutated |-> FALSE, gap |-> 0,
   woke |-> {},
   prevVerdict |-> "none", prevMutated |-> FALSE]

\* No handle_new_event call has ended yet.  assigned are the fields of the
\* event that the call has assigned, ncb the times it has invoked
\* new_state_callback, nupdate its update_current_state calls.
NoEvent ==
  [key |-> "none", result |-> "none", assigned |-> {}, depth |-> 0,
   prev_events |-> {}, prev_state_id |-> NoStr, prev_state_origin |-> NoStr,
   ncb |-> 0, nupdate |-> 0]

(***************************************************************************)
(* The tiebreak comparators, state.py lines 183-206.  A comparator gives   *)
(* the pair (new_res, curr_res), or raises.  Here and below an             *)
(* intermediate value is bound as the element of a singleton set, which    *)
(* makes it a value computed once wherever it is used.                     *)
(***************************************************************************)
Scores(n, c) == [err |-> "", new |-> n, cur |-> c]

Raises(e) == [err |-> e, new |-> 0, cur |-> 0]

\* branch[:-1]
AllButLast(branch) == SubSeq(branch, 1, Len(branch) - 1)

\* max(branch, key=lambda t: t.power_level).power_level of a non-empty branch
MaxPower(branch) ==
  CHOOSE m \in {PDU[branch[i]].power_level : i \in 1..Len(branch)} :
    \A i \in 1..Len(branch) : PDU[branch[i]].power_level <= m

\* max() of an empty sequence raises ValueError.
_do_power_level_conflict_res(new_branch, current_branch) ==
  IF AllButLast(new_branch) = << >> \/ AllButLast(current_branch) = << >>
  THEN Raises("ValueError")
  ELSE Scores(MaxPower(AllButLast(new_branch)),
              MaxPower(AllButLast(current_branch)))

_do_chain_length_conflict_res(new_branch, current_branch) ==
  Scores(Len(new_branch), Len(current_branch))

RECURSIVE JoinIds(_)
\* "".join([p.pdu_id + p.origin for p in branch])
JoinIds(branch) ==
  IF branch = << >> THEN << >>
  ELSE PDU[Head(branch)].pdu_id \o PDU[Head(branch)].origin \o JoinIds(Tail(branch))

CharCode(ch) ==
  CASE ch = "a" -> 1 [] ch = "b" -> 2 [] ch = "c" -> 3 [] ch = "d" -> 4
    [] ch = "e" -> 5

RECURSIVE StrCode(_)
\* A string as a number: one base-6 digit (1..5) per character, so that
\* different strings have different numbers.
StrCode(str) ==
  IF str = << >> THEN 0 ELSE CharCode(Head(str)) + 6 * StrCode(Tail(str))

\* hashlib.sha1(s).hexdigest(): a fixed-width lower-case hex string, so two
\* digests compare as the numbers they write.  The digest is modelled as
\* collision-free on the strings of the model (those of at most 6
\* characters) and as unrelated to their order: multiplication by 7919
\* modulo the prime 65537 is one-to-one on 0..65536.
Sha1(str) == (StrCode(str) * 7919) % 65537

_do_hash_conflict_res(new_branch, current_branch) ==
  Scores(Sha1(JoinIds(new_branch)), Sha1(JoinIds(current_branch)))

\* conflict_res, the comparators in the order the loop runs them.
ConflictRes == <<"power_level", "chain_length", "hash">>

Algo(name, new_branch, current_branch) ==
  CASE name = "power_level" ->
         _do_power_level_conflict_res(new_branch, current_branch)
    [] name = "chain_length" ->
         _do_chain_length_conflict_res(new_branch, current_branch)
    [] name = "hash" ->
         _do_hash_conflict_res(new_branch, current_branch)

\* What one pass of _handle_new_state gives: out is "true" or "false"
\* (returnValue), the exception raised, or "fetch" (get_pdu is issued for
\* the predecessor of missing); ncmp counts the comparators it evaluated.
Outcome(o, n, m) == [out |-> o, ncmp |-> n, missing |-> m]

RECURSIVE TiebreakFrom(_, _, _)
\* The loop "for algo in conflict_res" from its i-th comparator on, and the
\* raise that follows it.
TiebreakFrom(i, new_branch, current_branch) ==
  IF i > Len(ConflictRes) THEN Outcome("ConflictResolutionFailed", i - 1, NoPdu)
  ELSE CHOOSE o \in
         {IF r.err # "" THEN Outcome(r.err, i, NoPdu)
          ELSE IF r.new < r.cur THEN Outcome("false", i, NoPdu)
          ELSE IF r.new > r.cur THEN Outcome("true", i, NoPdu)
          ELSE TiebreakFrom(i + 1, new_branch, current_branch) :
            r \in {Algo(ConflictRes[i], new_branch, current_branch)}} : TRUE

\* Faulty variant: the direct clobber is never taken.
IsDirectClobber_never(current_branch) == FALSE

\* "if len(current_branch) == 1": the direct clobber.
IsDirectClobber(current_branch) == Len(current_branch) = 1

\* Faulty variant: the oldest element of the new branch is always picked.
MissingPrev_new(new_branch, current_branch) == new_branch[Len(new_branch)]

\* Faulty variant: the oldest element of the lesser depth is picked.
MissingPrev_lesser(new_branch, current_branch) ==
  LET n == new_branch[Len(new_branch)]
      c == current_branch[Len(current_branch)]
  IN  IF PDU[c].depth < PDU[n].depth THEN c ELSE n

\* max(new_branch[-1], current_branch[-1], key=lambda x: x.depth): the first
\* of the two when the depths are equal.
MissingPrev(new_branch, current_branch) ==
  LET n == new_branch[Len(new_branch)]
      c == current_branch[Len(current_branch)]
  IN  IF PDU[c].depth > PDU[n].depth THEN c ELSE n

\* _handle_new_state after the tree has come back, up to its return, its
\* raise or its get_pdu.
_handle_new_state(new_branch, current_branch) ==
  IF current_branch = << >> THEN Outcome("true", 0, NoPdu)
  ELSE IF new_branch[Len(new_branch)] = current_branch[Len(current_branch)]
  THEN IF IsDirectClobber(current_branch) THEN Outcome("true", 0, NoPdu)
       ELSE TiebreakFrom(1, new_branch, current_branch)
  ELSE Outcome("fetch", 0, MissingPrev(new_branch, current_branch))

\* The get_pdu request of lines 173-178.
GetPduRequest(missing_prev) ==
  [destination |-> PDU[missing_prev].origin,
   pdu_origin |-> PDU[missing_prev].prev_state_origin,
   pdu_id |-> PDU[missing_prev].prev_state_id,
   outlier |-> TRUE]

(***************************************************************************)
(* The persistence service and the replication layer are collaborators of  *)
(* this file; they are modelled from their interface description.          *)
(***************************************************************************)
RECURSIVE Walk(_, _, _)
\* The two ancestry chains, newest first, each walked back as far as the
\* store holds it, until they meet.  The chain whose oldest element is the
\* deeper one is extended (the new one when the depths are equal).
Walk(new_branch, current_branch, held) ==
  IF new_branch[Len(new_branch)] = current_branch[Len(current_branch)]
  THEN <<new_branch, current_branch>>
  ELSE CHOOSE t \in
         {IF p = NoPdu \/ p \notin held THEN <<new_branch, current_branch>>
          ELSE IF MissingPrev(new_branch, current_branch)
                    = new_branch[Len(new_branch)]
          THEN Walk(Append(new_branch, p), current_branch, held)
          ELSE Walk(new_branch, Append(current_branch, p), held) :
            p \in {PrevOf(MissingPrev(new_branch, current_branch))}} : TRUE

\* The PDUs between new_pdu or the current state cur and their deepest
\* common ancestor (itself included) that are the predecessor of one of
\* them and that the store does not hold.
MissingPredecessors(new_pdu, cur, held) ==
  IF cur = NoPdu \/ Ancestry(new_pdu) \cap Ancestry(cur) = {} THEN {}
  ELSE LET common == CHOOSE x \in Ancestry(new_pdu) \cap Ancestry(cur) :
                       \A y \in Ancestry(new_pdu) \cap Ancestry(cur) :
                         PDU[y].depth <= PDU[x].depth
           between == {x \in Ancestry(new_pdu) \cup Ancestry(cur) :
                         PDU[x].depth >= PDU[common].depth}
       IN  {x \in between : \E y \in between : PrevOf(y) = x} \ held

\* get_unresolved_state_tree(new_pdu) -> (new_branch, current_branch)
get_unresolved_state_tree(new_pdu, held, cur) ==
  IF cur = NoPdu THEN << <<new_pdu>>, << >> >>
  ELSE Walk(<<new_pdu>>, <<cur>>, held)


(***************************************************************************)
(* The lock and the release, on a record st of the fields that the calls   *)
(* resumed by a release read and write.                                    *)
(***************************************************************************)
Now ==
  [pc |-> pc, kind |-> kind, key |-> key, old |-> old, fired |-> fired,
   tbl |-> update_deferreds, entered |-> entered, lastEvent |-> lastEvent]

\* Faulty variant: one deferred chain for all keys.
LockKey_global(k) == "k1"

\* The key _lock files new_deferred under: the call's own KeyStateTuple.
LockKey(k) == k

\* Faulty variant: _lock never yields.
MustWait_never(st, old_deferred) == FALSE

\* "if old_deferred: yield old_deferred" suspends the call when there is an
\* old deferred and it has not fired yet.
MustWait(st, old_deferred) == old_deferred # NoCall /\ ~st.fired[old_deferred]

\* Faulty variant: the finally clause fires the deferred filed in the table.
FiredDeferred_table(st, c) == st.tbl[st.key[c]]

\* The deferred the finally clause fires: the call's own new_deferred.
FiredDeferred(st, c) == c

\* Faulty variant: the release is the last statement of the try block, not a
\* finally clause.
ReleaseOn_return(res) == res \in {"true", "false"}

\* The finally clause runs on every exit, whatever res is.
ReleaseOn(res) == TRUE

\* handle_new_event after _lock, lines 42-44: StateHandler has no attribute
\* "service" (__init__ sets _persistence, _replication and
\* _update_deferreds), so the first statement raises and nothing of the
\* body runs.
HandleNewEventBody == "AttributeError"

\* What a handle_new_event call for slot k that ended with res has done:
\* the raise at line 42 comes before every assignment to the event (lines
\* 46-62), before new_state_callback (line 68) and before
\* update_current_state (line 70).
HandleNewEventRun(k, res) == [NoEvent EXCEPT !.key = k, !.result = res]

RECURSIVE Fire(_, _), ResumeAll(_, _), Enter(_, _), Finish(_, _, _)

\* A call ends with res: the finally clause, then the return or the raise.
Finish(st, c, res) ==
  CHOOSE r \in
    {IF ReleaseOn(res) THEN Fire(st1, FiredDeferred(st1, c)) ELSE st1 :
       st1 \in {[st EXCEPT !.pc[c] = "done", !.kind[c] = "none",
                            !.lastEvent =
                              IF st.kind[c] = "event"
                              THEN HandleNewEventRun(st.key[c], res)
                              ELSE @]}} : TRUE

\* A call has passed "yield self._lock(key, new_deferred)" and runs to its
\* first suspension: handle_new_state to get_unresolved_state_tree,
\* handle_new_event to its end.
Enter(st, c) ==
  CHOOSE r \in
    {IF st.kind[c] = "state" THEN [st1 EXCEPT !.pc[c] = "tree"]
     ELSE Finish(st1, c, HandleNewEventBody) :
       st1 \in {[st EXCEPT !.entered[st.key[c]] = Append(@, c),
                            !.old[c] = NoCall]}} : TRUE

\* The calls in ws resume, in the order in which they began to wait.
ResumeAll(st, ws) ==
  IF ws = {} THEN st
  ELSE CHOOSE r \in
         {ResumeAll(st1, ws \ {w}) :
            w \in {x \in ws : \A y \in ws : x <= y},
            st1 \in {IF st.pc[CHOOSE x \in ws : \A y \in ws : x <= y] = "waiting"
                      THEN Enter(st, CHOOSE x \in ws : \A y \in ws : x <= y)
                      ELSE st}} : TRUE

\* d.callback(None): the deferred fires and the calls waiting for it resume
\* inside this call.  Firing a fired deferred raises AlreadyCalledError and
\* resumes nobody.
Fire(st, d) ==
  IF d = NoCall \/ st.fired[d] THEN st
  ELSE CHOOSE r \in
         {ResumeAll(st1, ws) :
            st1 \in {[st EXCEPT !.fired[d] = TRUE]},
            ws \in {{w \in Calls : st.pc[w] = "waiting" /\ st.old[w] = d}}} :
         TRUE

\* _lock, lines 116-121, and what follows it when the call need not wait.
_lock(st, c) ==
  CHOOSE r \in
    {IF MustWait(st1, old_deferred) THEN [st1 EXCEPT !.pc[c] = "waiting"]
     ELSE Enter(st1, c) :
       old_deferred \in {st.tbl[LockKey(st.key[c])]},
       st1 \in {[st EXCEPT !.old[c] = st.tbl[LockKey(st.key[c])],
                            !.tbl[LockKey(st.key[c])] = c]}} : TRUE

Commit(st) ==
  /\ pc' = st.pc
  /\ kind' = st.kind
  /\ key' = st.key
  /\ old' = st.old
  /\ fired' = st.fired
  /\ update_deferreds' = st.tbl
  /\ entered' = st.entered
  /\ lastEvent' = st.lastEvent

(***************************************************************************)
(* Initial state: no call has been made.  InitOf: the slots k1 and k2 have *)
(* the current states c1 and c2 and the store holds the PDUs held.         *)
(* InitWith: each slot has no current state or one of the PDUs given for   *)
(* it, and the store holds the ancestry of the current states.             *)
(***************************************************************************)
InitOf(c1, c2, held) ==
  /\ pc = [c \in Calls |-> "idle"]
  /\ kind = [c \in Calls |-> "none"]
  /\ key = [c \in Calls |-> "none"]
  /\ pdu = [c \in Calls |-> NoPdu]
  /\ cbk = [c \in Calls |-> "none"]
  /\ old = [c \in Calls |-> NoCall]
  /\ fired = [c \in Calls |-> FALSE]
  /\ update_deferreds = [k \in Keys |-> NoCall]
  /\ entered = [k \in Keys |-> << >>]
  /\ current = [k \in Keys |-> IF k = "k1" THEN c1 ELSE c2]
  /\ have = held
  /\ tree = [c \in Calls |-> NoTree]
  /\ nfetch = [c \in Calls |-> 0]
  /\ ntree = [c \in Calls |-> 0]
  /\ ncmp = [c \in Calls |-> 0]
  /\ ncb = [c \in Calls |-> 0]
  /\ fetchReq = [c \in Calls |-> NoReq]
  /\ mutated = [c \in Calls |-> FALSE]
  /\ pending = {}
  /\ gap = [c \in Calls |-> 0]
  /\ last = NoLast
  /\ lastEvent = NoEvent

InitWith(currents1, currents2) ==
  \E c1 \in currents1, c2 \in currents2 :
    InitOf(c1, c2, Ancestry(c1) \cup Ancestry(c2))

\* The next call to be made: calls are numbered in the order of their _lock.
IsNext(c) == pc[c] = "idle" /\ \A d \in Calls : d < c => pc[d] # "idle"

\* handle_new_state(new_pdu, new_state_callback), lines 81-98: up to the
\* wait in _lock or the get_unresolved_state_tree query.
handle_new_state(c, new_pdu, new_state_callback) ==
  /\ IsNext(c)
  /\ pdu' = [pdu EXCEPT ![c] = new_pdu]
  /\ cbk' = [cbk EXCEPT ![c] = new_state_callback]
  /\ \E st0 \in {[Now EXCEPT !.kind[c] = "state",
                                !.key[c] = PDU[new_pdu].key,
                                !.lastEvent = NoEvent]} :
       \E st \in {_lock(st0, c)} : Commit(st)
  /\ gap' = [gap EXCEPT ![c] = Cardinality(
                  MissingPredecessors(new_pdu, current[PDU[new_pdu].key], have))]
  /\ UNCHANGED <<have, current, tree, nfetch, ntree, ncmp, ncb, fetchReq,
                 mutated, pending, last>>

\* handle_new_event(event, new_state_callback), lines 28-78, for an event
\* of slot k: up to the wait in _lock, or to its end.
handle_new_event(c, k) ==
  /\ IsNext(c)
  /\ \E st0 \in {[Now EXCEPT !.kind[c] = "event", !.key[c] = k]} :
       \E st \in {_lock(st0, c)} : Commit(st)
  /\ UNCHANGED <<pdu, cbk, have, current, tree, nfetch, ntree, ncmp, ncb,
                 fetchReq, mutated, pending, gap, last>>

\* defer.maybeDeferred(new_state_callback(new_pdu)), line 103: maybeDeferred
\* calls its first argument, here what the callback returned.  None is not
\* callable: the TypeError becomes the failure the yield raises.
MaybeDeferred(returned) ==
  IF returned = "callable" THEN "deferred" ELSE "TypeError"

\* What the callback of kind cb returns.
CallbackReturns(cb) ==
  CASE cb = "callable" -> "callable"
    [] cb = "async" -> "Deferred"
    [] OTHER -> "None"

\* Whether the callback of kind cb has recorded the new PDU as CurrentState
\* when it returns: the asynchronous one has only started to.
UpdatesNow(cb) == cb # "async"

\* "if is_new and new_state_callback", line 102.
CallsBack(is_new, cb) == is_new = "true" /\ cb # "none"

\* The call c ends: its caller gets res (the value returned or the error
\* raised); v is what _handle_new_state gave, t the last tree, and nc, nf,
\* nq, nb, m the call's counts; woke are the calls its release resumed;
\* prevVerdict and prevMutated are the verdict and the mutated of the
\* handle_new_state call that ended before it, when that call was for the
\* same PDU.
Ended(c, res, v, t, nc, nf, nq, nb, m) ==
  /\ \E st0 \in {Now} : \E st \in {Finish(st0, c, res)} :
       /\ Commit(st)
       /\ last' = [call |-> c, key |-> key[c], pdu |-> pdu[c], cbk |-> cbk[c],
                   tree |-> t, verdict |-> v, result |-> res, nfetch |-> nf,
                   ntree |-> nq, ncmp |-> nc, ncb |-> nb, mutated |-> m,
                   gap |-> gap[c],
                   woke |-> {w \in Calls : pc[w] = "waiting"
                                           /\ st.pc[w] # "waiting"},
                   prevVerdict |-> IF last.pdu = pdu[c] THEN last.verdict
                                   ELSE "none",
                   prevMutated |-> last.pdu = pdu[c] /\ last.mutated]
  /\ pdu' = [pdu EXCEPT ![c] = NoPdu]
  /\ cbk' = [cbk EXCEPT ![c] = "none"]
  /\ tree' = [tree EXCEPT ![c] = NoTree]
  /\ nfetch' = [nfetch EXCEPT ![c] = 0]
  /\ ntree' = [ntree EXCEPT ![c] = 0]
  /\ ncmp' = [ncmp EXCEPT ![c] = 0]
  /\ ncb' = [ncb EXCEPT ![c] = 0]
  /\ fetchReq' = [fetchReq EXCEPT ![c] = NoReq]
  /\ mutated' = [mutated EXCEPT ![c] = FALSE]
  /\ gap' = [gap EXCEPT ![c] = 0]

\* Faulty variant: a re-run of the resolver keeps the tree of its first
\* query.
TreeUsed_first(previous, queried) ==
  IF previous = NoTree THEN queried ELSE previous

\* "tree = yield self._persistence.get_unresolved_state_tree(new_pdu)":
\* every run of _handle_new_state, the recursive one of line 180 included,
\* works on the tree it has just queried, whatever the previous one was.
TreeUsed(previous, queried) == queried

\* get_unresolved_state_tree returns, lines 125-181 and 100-108: the call
\* runs _handle_new_state to its verdict, to its raise or to its get_pdu,
\* and on a verdict goes on in handle_new_state to the callback (modelled
\* from its description: it records new_pdu as the CurrentState of its
\* slot), the finally clause and the return.
TreeReturn(c) ==
  /\ pc[c] = "tree"
  /\ \E t \in {TreeUsed(tree[c], get_unresolved_state_tree(
                                    pdu[c], have, current[key[c]]))} :
     \E o \in {_handle_new_state(t[1], t[2])} :
     \E nc \in {ncmp[c] + o.ncmp},
        m \in {UpdatesNow(cbk[c]) /\ current[key[c]] # pdu[c]} :
         IF o.out = "fetch"
         THEN /\ tree' = [tree EXCEPT ![c] = t]
              /\ ncmp' = [ncmp EXCEPT ![c] = nc]
              /\ fetchReq' = [fetchReq EXCEPT ![c] = GetPduRequest(o.missing)]
              /\ nfetch' = [nfetch EXCEPT ![c] = @ + 1]
              /\ ntree' = [ntree EXCEPT ![c] = @ + 1]
              /\ Commit([Now EXCEPT !.pc[c] = "fetch"])
              /\ UNCHANGED <<pdu, cbk, have, current, ncb, mutated, pending,
                             gap, last>>
         ELSE IF CallsBack(o.out, cbk[c])
         THEN /\ IF UpdatesNow(cbk[c])
                 THEN /\ current' = [current EXCEPT ![key[c]] = pdu[c]]
                      /\ have' = have \cup {pdu[c]}
                      /\ pending' = pending
                 ELSE /\ pending' = pending \cup {pdu[c]}
                      /\ UNCHANGED <<have, current>>
              /\ IF MaybeDeferred(CallbackReturns(cbk[c])) = "deferred"
                 THEN /\ tree' = [tree EXCEPT ![c] = t]
                      /\ ncmp' = [ncmp EXCEPT ![c] = nc]
                      /\ ncb' = [ncb EXCEPT ![c] = @ + 1]
                      /\ mutated' = [mutated EXCEPT ![c] = m]
                      /\ ntree' = [ntree EXCEPT ![c] = @ + 1]
                      /\ Commit([Now EXCEPT !.pc[c] = "cb"])
                      /\ UNCHANGED <<pdu, cbk, nfetch, fetchReq, gap, last>>
                 ELSE Ended(c, MaybeDeferred(CallbackReturns(cbk[c])), o.out,
                            t, nc, nfetch[c], ntree[c] + 1, ncb[c] + 1, m)
         ELSE /\ Ended(c, o.out, o.out, t, nc, nfetch[c], ntree[c] + 1,
                       ncb[c], FALSE)
              /\ UNCHANGED <<have, current, pending>>

\* get_unresolved_state_tree fails: the failure is raised at line 125.
TreeFail(c) ==
  /\ pc[c] = "tree"
  /\ Ended(c, "PersistenceError", "PersistenceError", tree[c], ncmp[c],
           nfetch[c], ntree[c] + 1, ncb[c], FALSE)
  /\ UNCHANGED <<have, current, pending>>

\* get_pdu succeeds: the replication layer has persisted the PDU asked for,
\* and line 180 re-runs _handle_new_state, up to its tree query.
FetchReturn(c) ==
  /\ pc[c] = "fetch"
  /\ PduAt(fetchReq[c].pdu_origin, fetchReq[c].pdu_id) # NoPdu
  /\ have' = have \cup {PduAt(fetchReq[c].pdu_origin, fetchReq[c].pdu_id)}
  /\ Commit([Now EXCEPT !.pc[c] = "tree"])
  /\ UNCHANGED <<pdu, cbk, current, tree, nfetch, ntree, ncmp, ncb, fetchReq,
                 mutated, pending, gap, last>>

\* Faulty variant: a failed get_pdu is taken for a lost resolution.
AfterGetPduFailure_swallowed(err) == "false"

\* What handle_new_state's caller gets when get_pdu fails with err: no
\* except clause stands between line 173 and the caller, so err itself.
AfterGetPduFailure(err) == err

\* get_pdu fails: the failure is raised at line 173.
FetchFail(c) ==
  /\ pc[c] = "fetch"
  /\ Ended(c, AfterGetPduFailure("FetchError"), "FetchError", tree[c], ncmp[c], nfetch[c],
           ntree[c], ncb[c], FALSE)
  /\ UNCHANGED <<have, current, pending>>

\* The deferred of the callback's callable fires: finally, return is_new.
CallbackReturn(c) ==
  /\ pc[c] = "cb"
  /\ Ended(c, "true", "true", tree[c], ncmp[c], nfetch[c], ntree[c], ncb[c],
           mutated[c])
  /\ UNCHANGED <<have, current, pending>>

\* The deferred of the callback's callable fails: finally, then the raise.
CallbackFail(c) ==
  /\ pc[c] = "cb"
  /\ Ended(c, "CallbackError", "true", tree[c], ncmp[c], nfetch[c], ntree[c],
           ncb[c], mutated[c])
  /\ UNCHANGED <<have, current, pending>>

\* The update that an asynchronous callback started for the PDU n is
\* applied: n is recorded as the CurrentState of its slot.
CallbackUpdate(n) ==
  /\ n \in pending
  /\ pending' = pending \ {n}
  /\ current' = [current EXCEPT ![PDU[n].key] = n]
  /\ have' = have \cup {n}
  /\ UNCHANGED <<pc, kind, key, pdu, cbk, old, fired, update_deferreds,
                 entered, tree, nfetch, ntree, ncmp, ncb, fetchReq, mutated,
                 gap, last, lastEvent>>

\* What the external call a suspended call waits for can do: return or fail.
Resume(c) ==
  \/ TreeReturn(c)
  \/ TreeFail(c)
  \/ FetchReturn(c)
  \/ FetchFail(c)
  \/ CallbackReturn(c)
  \/ CallbackFail(c)

(***************************************************************************)
(* Spec: NCalls calls made at any time, with the new PDUs P4 (k1) and T    *)
(* (k2), on a store where k1 has no current state or P1.                   *)
(***************************************************************************)
ConcurrentPdus == {"P4", "T"}

Init == InitWith({NoPdu, "P1"}, {NoPdu})

Next ==
  \/ \E c \in Calls, n \in ConcurrentPdus, cb \in Callbacks :
       handle_new_state(c, n, cb)
  \/ \E c \in Calls, k \in Keys : handle_new_event(c, k)
  \/ \E c \in Calls : TreeReturn(c)
  \/ \E c \in Calls : TreeFail(c)
  \/ \E c \in Calls : FetchReturn(c)
  \/ \E c \in Calls : FetchFail(c)
  \/ \E c \in Calls : CallbackReturn(c)
  \/ \E c \in Calls : CallbackFail(c)

Spec == Init /\ [][Next]_vars

(***************************************************************************)
(* LiveSpec: as Spec, on a store where k1 has the current state P1, with   *)
(* P2 (whose resolution against P1 fails), P4 and T as the new PDUs, and   *)
(* in every handle_new_state call a callback that returns a callable.      *)
(* FairSpec and HangSpec add to it what the external calls are assumed to  *)
(* do.                                                                     *)
(***************************************************************************)
LivePdus == {"P2", "P4", "T"}

GivenCallbacks == {"callable"}

InitLive == InitWith({"P1"}, {NoPdu})

NextLive ==
  \/ \E c \in Calls, n \in LivePdus, cb \in GivenCallbacks :
       handle_new_state(c, n, cb)
  \/ \E c \in Calls, k \in Keys : handle_new_event(c, k)
  \/ \E c \in Calls : TreeReturn(c)
  \/ \E c \in Calls : TreeFail(c)
  \/ \E c \in Calls : FetchReturn(c)
  \/ \E c \in Calls : FetchFail(c)
  \/ \E c \in Calls : CallbackReturn(c)
  \/ \E c \in Calls : CallbackFail(c)

LiveSpec == InitLive /\ [][NextLive]_vars

\* An external call that suspended calls wait for returns or fails: the
\* calls cannot all stay suspended for ever.
FairSpec == LiveSpec /\ WF_vars(\E c \in Calls : Resume(c))

\* As FairSpec, but only for the calls on k2: the calls on k1 may stay
\* suspended for ever.
HangSpec == LiveSpec /\ WF_vars(\E c \in Calls : key[c] = "k2" /\ Resume(c))

(***************************************************************************)
(* GapSpec: NCalls calls made at any time, all on k1, with the new PDU P4  *)
(* on a store that holds the current state P1 without its ancestor R: a    *)
(* handle_new_state call needs two get_pdu (for P3, then for R) before its *)
(* branches converge.                                                      *)
(***************************************************************************)
GapPdus == {"P4"}

GapCallbacks == {"none", "callable"}

InitGap == InitOf("P1", NoPdu, {"P1"})

NextGap ==
  \/ \E c \in Calls, n \in GapPdus, cb \in GapCallbacks :
       handle_new_state(c, n, cb)
  \/ \E c \in Calls : handle_new_event(c, "k1")
  \/ \E c \in Calls : TreeReturn(c)
  \/ \E c \in Calls : TreeFail(c)
  \/ \E c \in Calls : FetchReturn(c)
  \/ \E c \in Calls : FetchFail(c)
  \/ \E c \in Calls : CallbackReturn(c)
  \/ \E c \in Calls : CallbackFail(c)

GapSpec == InitGap /\ [][NextGap]_vars

(***************************************************************************)
(* AsyncSpec: NCalls calls made at any time, all on k1, with the new PDU   *)
(* P4 on a store where k1 has the current state P1, and with callbacks     *)
(* that return a callable or the unfired Deferred of their update.         *)
(***************************************************************************)
NextAsync ==
  \/ \E c \in Calls, n \in GapPdus, cb \in AsyncCallbacks \cup {"callable"} :
       handle_new_state(c, n, cb)
  \/ \E c \in Calls : handle_new_event(c, "k1")
  \/ \E c \in Calls : TreeReturn(c)
  \/ \E c \in Calls : TreeFail(c)
  \/ \E c \in Calls : FetchReturn(c)
  \/ \E c \in Calls : FetchFail(c)
  \/ \E c \in Calls : CallbackReturn(c)
  \/ \E c \in Calls : CallbackFail(c)
  \/ \E n \in Names : CallbackUpdate(n)

InitAsync == InitWith({"P1"}, {NoPdu})

AsyncSpec == InitAsync /\ [][NextAsync]_vars

(***************************************************************************)
(* SeqSpec: NSeq calls, each made when the one before it has ended, with   *)
(* any PDU of k1 as the new PDU, on a store where k1 has no current state  *)
(* or any of its PDUs, held with all its ancestors or with none.           *)
(***************************************************************************)
Quiet == \A c \in Calls : pc[c] \in {"idle", "done"}

SequentialPdus == {n \in Names : PDU[n].key = "k1"}

\* Current states of k1 that the store holds as outliers: with none of
\* their ancestors.
OutlierCurrents == {"P1", "P4"}

InitSeq ==
  \/ InitWith({NoPdu} \cup SequentialPdus, {NoPdu})
  \/ \E c1 \in OutlierCurrents : InitOf(c1, NoPdu, {c1})

NextSeq ==
  \/ \E c \in 1..NSeq, n \in SequentialPdus, cb \in Callbacks :
       Quiet /\ handle_new_state(c, n, cb)
  \/ \E c \in 1..NSeq, k \in Keys : Quiet /\ handle_new_event(c, k)
  \/ \E c \in Calls : TreeReturn(c)
  \/ \E c \in Calls : TreeFail(c)
  \/ \E c \in Calls : FetchReturn(c)
  \/ \E c \in Calls : FetchFail(c)
  \/ \E c \in Calls : CallbackReturn(c)
  \/ \E c \in Calls : CallbackFail(c)

SeqSpec == InitSeq /\ [][NextSeq]_vars


(***************************************************************************)
(* The claims.                                                             *)
(***************************************************************************)
\* The call has passed _lock and has not fired its release deferred.
Holds(c) ==
  /\ pc[c] \notin {"idle", "waiting"}
  /\ \E i \in 1..Len(entered[key[c]]) : entered[key[c]][i] = c
  /\ ~fired[c]

Verdicts == {"true", "false"}

\* The two branches of a tree end in the same element.
Converged(t) ==
  /\ t[1] # << >>
  /\ t[2] # << >>
  /\ t[1][Len(t[1])] = t[2][Len(t[2])]

\* C1 (lock exclusivity): no two calls on the same KeyStateTuple are at
\* the same time between having passed _lock and firing their release
\* deferred.
Thm_C1_LockExclusivity ==
  \A c1, c2 \in Calls :
    (c1 # c2 /\ Holds(c1) /\ Holds(c2)) => key[c1] # key[c2]

\* A call holds a key while two other calls on that key wait.
Wit_C1_HolderAndWaiters ==
  \E c1, c2, c3 \in Calls :
    /\ c2 # c3
    /\ Holds(c1)
    /\ pc[c2] = "waiting" /\ key[c2] = key[c1]
    /\ pc[c3] = "waiting" /\ key[c3] = key[c1]

\* C2 (guaranteed release): a call that has ended, however it ended, has
\* fired its release deferred, and every call that waits in _lock
\* eventually passes it, when the external calls of the holders return or
\* fail.
Thm_C2_GuaranteedRelease ==
  /\ [](\A c \in Calls : pc[c] = "done" => fired[c])
  /\ \A c \in Calls : (pc[c] = "waiting") ~> (pc[c] \notin {"idle", "waiting"})

\* A handle_new_state call has ended with an error and its release has
\* resumed a call that waited for the key.
Wit_C2_FailedCallWokeWaiter ==
  /\ last.result \notin Verdicts \cup {"none"}
  /\ last.woke # {}
  /\ \A w \in last.woke : fired[last.call] /\ key[w] = last.key

\* C3 (same-key ordering): on every key the calls pass _lock in the order
\* in which their _lock calls executed (the order of their numbers), none
\* overtaking an earlier one; and a call that waits, waits for the unfired
\* deferred of the call before it on its key, so that none is skipped.
Thm_C3_SameKeyOrdering ==
  /\ \A k \in Keys : \A i \in 1..Len(entered[k]) :
       /\ key[entered[k][i]] = k
       /\ Cardinality({d \in Calls : key[d] = k /\ d < entered[k][i]}) = i - 1
  /\ \A w \in Calls : pc[w] = "waiting" =>
       /\ old[w] # NoCall
       /\ ~fired[old[w]]
       /\ old[w] < w
       /\ key[old[w]] = key[w]
       /\ \A d \in Calls : (old[w] < d /\ d < w) => key[d] # key[w]

\* Three calls on one key have passed _lock, the second one's release
\* having resumed the third.
Wit_C3_ThreeInOrder ==
  \E k \in Keys :
    /\ Len(entered[k]) = 3
    /\ last.call = entered[k][2]
    /\ last.woke = {entered[k][3]}

\* C4 (cross-key independence): a call only ever waits for a call on its
\* own key, and when the calls on k1 may stay suspended for ever, every
\* call on k2 still ends.
Thm_C4_CrossKeyIndependence ==
  /\ [](\A c \in Calls : pc[c] = "waiting" => key[old[c]] = key[c])
  /\ \A c \in Calls : (pc[c] # "idle" /\ key[c] = "k2") ~> (pc[c] = "done")

\* A call on k1 is suspended on its get_pdu while a handle_new_state call
\* on k2, made after it, has returned its verdict.
Wit_C4_OtherKeyCompletes ==
  \E c \in Calls :
    /\ pc[c] = "fetch" /\ key[c] = "k1"
    /\ last.call > c /\ last.key = "k2" /\ last.result \in Verdicts

Opposite(v) == IF v = "true" THEN "false" ELSE "true"

\* C5 (convergence across participants) as claimed: when the branches
\* converge and both have at least two elements, the resolver gives a
\* verdict, and gives the opposite verdict with the branches exchanged.
Cex_C5_OppositeVerdicts ==
  (/\ last.call # NoCall
   /\ Converged(last.tree)
   /\ Len(last.tree[1]) >= 2
   /\ Len(last.tree[2]) >= 2
   /\ last.verdict # "PersistenceError")
  => /\ last.verdict \in Verdicts
     /\ _handle_new_state(last.tree[2], last.tree[1]).out = Opposite(last.verdict)

\* C6 (first writer) as claimed: on an empty current branch the call
\* returns true, having issued no get_pdu and run no comparator (a call
\* whose callback's own deferred failed is left aside).
Cex_C6_FirstWriterReturnsTrue ==
  (/\ last.call # NoCall
   /\ last.tree # NoTree
   /\ last.tree[2] = << >>
   /\ last.result \notin {"PersistenceError", "CallbackError"})
  => /\ last.result = "true"
     /\ last.nfetch = 0
     /\ last.ncmp = 0

\* C7 (direct-descendant clobber) as claimed: when the branches end in the
\* same element and the current branch has length 1, the call returns true
\* and no comparator was evaluated (a call whose callback's own deferred
\* failed is left aside).
Cex_C7_ClobberReturnsTrue ==
  (/\ last.call # NoCall
   /\ Converged(last.tree)
   /\ Len(last.tree[2]) = 1
   /\ last.result \notin {"PersistenceError", "CallbackError"})
  => /\ last.result = "true"
     /\ last.ncmp = 0

\* The scores the three comparators are described to compare, in their
\* fixed order: the maximum power level over the elements before the shared
\* tail (no score for a branch that has none), the branch length, the
\* digest of the joined identifiers.
DescribedScores(i, branch) ==
  CASE i = 1 -> IF Len(branch) < 2 THEN -1 ELSE MaxPower(AllButLast(branch))
    [] i = 2 -> Len(branch)
    [] i = 3 -> Sha1(JoinIds(branch))

\* The comparators that have a score for both branches and give unequal ones.
Deciding(t) ==
  {i \in 1..3 : /\ DescribedScores(i, t[1]) # DescribedScores(i, t[2])
                /\ DescribedScores(i, t[1]) >= 0
                /\ DescribedScores(i, t[2]) >= 0}

\* C8 (tiebreak ordering) as claimed: for converged branches with a current
\* branch longer than 1, the verdict is that of the first comparator whose
\* scores are unequal, the new PDU winning iff its score is the greater.
Cex_C8_FirstUnequalDecides ==
  (/\ last.call # NoCall
   /\ Converged(last.tree)
   /\ Len(last.tree[2]) > 1
   /\ last.verdict # "PersistenceError"
   /\ Deciding(last.tree) # {})
  => LET i == CHOOSE x \in Deciding(last.tree) :
                \A y \in Deciding(last.tree) : x <= y
     IN  last.verdict =
           IF DescribedScores(i, last.tree[1]) > DescribedScores(i, last.tree[2])
           THEN "true" ELSE "false"

\* The (pdu_id, origin) pairs of a branch.
IdPairs(branch) ==
  [i \in 1..Len(branch) |-> <<PDU[branch[i]].pdu_id, PDU[branch[i]].origin>>]

\* C9 (tiebreak total order) as claimed: two converged branches that reach
\* the comparators with different (pdu_id, origin) sequences have different
\* hash inputs, and the resolver returns a verdict.
Cex_C9_DistinctBranchesDecided ==
  (/\ last.call # NoCall
   /\ Converged(last.tree)
   /\ Len(last.tree[1]) > 1
   /\ Len(last.tree[2]) > 1
   /\ last.verdict # "PersistenceError"
   /\ IdPairs(last.tree[1]) # IdPairs(last.tree[2]))
  => /\ JoinIds(last.tree[1]) # JoinIds(last.tree[2])
     /\ last.verdict \in Verdicts

\* The current state a tree was made for: the head of its current branch.
CurrentOf(t) == IF t[2] = << >> THEN NoPdu ELSE t[2][1]

\* What an external call's failure makes of a call, as opposed to what the
\* resolver makes of its tree.
ExternalFailures == {"PersistenceError", "FetchError"}

Oldest(branch) == branch[Len(branch)]

\* The two branches of a tree are not empty and end in different elements.
Diverged(t) ==
  /\ t[1] # << >>
  /\ t[2] # << >>
  /\ Oldest(t[1]) # Oldest(t[2])

\* The get_pdu request described for a diverged tree: for the predecessor
\* of whichever oldest element has the greater depth, the new branch's when
\* the depths are equal.
DescribedRequest(t) ==
  LET e == IF PDU[Oldest(t[2])].depth > PDU[Oldest(t[1])].depth
           THEN Oldest(t[2]) ELSE Oldest(t[1])
  IN  [destination |-> PDU[e].origin,
       pdu_origin |-> PDU[e].prev_state_origin,
       pdu_id |-> PDU[e].prev_state_id,
       outlier |-> TRUE]

\* C11 (gap selection): a call goes from a tree query to a get_pdu only on
\* a diverged tree, with one more get_pdu issued and the request being the
\* described one; and a call that waits on get_pdu has that request
\* outstanding for the tree it got last.
Thm_C11_GapSelection ==
  /\ [](\A c \in Calls : pc[c] = "fetch" =>
         /\ Diverged(tree[c])
         /\ fetchReq[c] = DescribedRequest(tree[c]))
  /\ [][\A c \in Calls : (pc[c] = "tree" /\ pc'[c] = "fetch") =>
          /\ Diverged(tree'[c])
          /\ nfetch'[c] = nfetch[c] + 1
          /\ fetchReq'[c] = DescribedRequest(tree'[c])]_vars

\* A call's second get_pdu is for the new branch's side, the two oldest
\* elements having the same depth.
Wit_C11_TieGoesToNewBranch ==
  \E c \in Calls :
    /\ pc[c] = "fetch"
    /\ nfetch[c] = 2
    /\ PDU[Oldest(tree[c][1])].depth = PDU[Oldest(tree[c][2])].depth
    /\ fetchReq[c].pdu_id = PDU[Oldest(tree[c][1])].prev_state_id
    /\ fetchReq[c].pdu_origin = PDU[Oldest(tree[c][1])].prev_state_origin
    /\ fetchReq[c].destination = PDU[Oldest(tree[c][1])].origin

\* The get_pdu request for the predecessor of the element e.
RequestFor(e) ==
  [destination |-> PDU[e].origin,
   pdu_origin |-> PDU[e].prev_state_origin,
   pdu_id |-> PDU[e].prev_state_id,
   outlier |-> TRUE]

\* The oldest element of the new branch is less deep than the oldest
\* element of the current branch.
NewSideLessDeep(t) ==
  /\ Diverged(t)
  /\ PDU[Oldest(t[1])].depth < PDU[Oldest(t[2])].depth

\* C12 (gap-side scenario) as claimed: when the new branch's oldest element
\* has a lower depth than the current branch's, the get_pdu is for the
\* predecessor of the new branch's oldest element.
Cex_C12_FetchForNewSide ==
  \A c \in Calls :
    (pc[c] = "fetch" /\ NewSideLessDeep(tree[c]))
      => fetchReq[c] = RequestFor(Oldest(tree[c][1]))

\* C12 (gap-side scenario) as the code has it: when the new branch's oldest
\* element has a lower depth than the current branch's, the get_pdu is for
\* the predecessor of the current branch's oldest element, and not for that
\* of the new branch's.
Thm_C12_FetchForCurrentSide ==
  \A c \in Calls :
    (pc[c] = "fetch" /\ NewSideLessDeep(tree[c]))
      => /\ fetchReq[c] = RequestFor(Oldest(tree[c][2]))
         /\ fetchReq[c] # RequestFor(Oldest(tree[c][1]))

\* The new PDU P1 (depth 1) met the outlier current state P4 (depth 2): the
\* get_pdu asks P4's origin for P3, the predecessor of P4.
Wit_C12_CurrentSideFetched ==
  \E c \in Calls :
    /\ pc[c] = "fetch"
    /\ tree[c] = << <<"P1">>, <<"P4">> >>
    /\ PduAt(fetchReq[c].pdu_origin, fetchReq[c].pdu_id) = "P3"
    /\ fetchReq[c].destination = PDU["P4"].origin

\* The PDU a call's outstanding get_pdu asks for.
Requested(c) == PduAt(fetchReq[c].pdu_origin, fetchReq[c].pdu_id)

\* The missing predecessors of a call in progress, in the present store.
StillMissing(c) == MissingPredecessors(pdu[c], current[key[c]], have)

\* A call asks for a PDU that the store does not hold, and its fetches so
\* far have each taken one PDU off the missing ones.
FetchesReduceGap ==
  \A c \in Calls : pc[c] = "fetch" =>
    /\ Requested(c) \notin have
    /\ Cardinality(StillMissing(c)) = gap[c] - (nfetch[c] - 1)

\* A call whose external calls all succeeded has issued at most as many
\* get_pdu as predecessors were missing.
FetchesWithinGap ==
  (last.call # NoCall
   /\ last.result \notin ExternalFailures \cup {"CallbackError"})
  => last.nfetch <= last.gap

\* C13 (gap-fill termination) as claimed: with N >= 1 missing
\* predecessors and every get_pdu succeeding, the call issues at most N
\* get_pdu, each one for a PDU not yet held and each taking one off the
\* missing ones, and then returns a verdict.
Cex_C13_GapFillReturnsVerdict ==
  /\ FetchesReduceGap
  /\ FetchesWithinGap
  /\ (last.call # NoCall
      /\ last.gap >= 1
      /\ last.result \notin ExternalFailures \cup {"CallbackError"})
     => last.result \in Verdicts

\* C14 (fetch failure): a call whose get_pdu fails ends in that step with
\* the failure as what its caller gets, with no callback invoked, with the
\* store and CurrentState as they were, with no get_pdu or tree query
\* beyond those it had made, with its release deferred fired and with every
\* call that waited for it past _lock.
Thm_C14_FetchFailure ==
  /\ [](last.verdict = "FetchError" =>
         /\ last.result = "FetchError"
         /\ last.ncb = 0
         /\ ~last.mutated
         /\ last.nfetch >= 1
         /\ last.ntree = last.nfetch
         /\ fired[last.call]
         /\ \A w \in Calls : pc[w] = "waiting" => old[w] # last.call)
  /\ [][\A c \in Calls :
          (pc[c] = "fetch" /\ pc'[c] # "fetch" /\ Requested(c) \notin have') =>
            /\ pc'[c] = "done"
            /\ last'.call = c
            /\ last'.verdict = "FetchError"
            /\ last'.nfetch = nfetch[c]
            /\ last'.ntree = ntree[c]
            /\ current' = current
            /\ have' = have
            /\ \A w \in Calls :
                 (pc[w] = "waiting" /\ old[w] = c) => pc'[w] \notin {"idle", "waiting"}]_vars

\* A call's second get_pdu has failed, and its release has let a call that
\* waited for the key pass _lock.
Wit_C14_SecondFetchFailed ==
  /\ last.verdict = "FetchError"
  /\ last.nfetch = 2
  /\ last.woke # {}
  /\ \A w \in last.woke : key[w] = last.key /\ pc[w] # "waiting"

\* C15 (post-resolution callback and result) as claimed: the supplied
\* callback has been invoked once when the resolver's verdict was true and
\* not at all otherwise, and a call whose resolver gave a verdict returns
\* that verdict (a call whose tree query, get_pdu or callback's own
\* deferred failed is left aside).
Cex_C15_CallbackOnceThenVerdict ==
  (/\ last.call # NoCall
   /\ last.result \notin ExternalFailures \cup {"CallbackError"})
  => /\ last.ncb = IF last.verdict = "true" /\ last.cbk # "none" THEN 1 ELSE 0
     /\ last.verdict \in Verdicts => last.result = last.verdict

\* The event a handle_new_event call is for, as a CurrentState.
NewEvent == "event"

\* C16 (local admission side effects) as claimed: a handle_new_event call
\* has ended either with its callback invoked, one update_current_state
\* and its event as the CurrentState of its slot, or with the failure of
\* its callback or of a persistence query and no update_current_state.
Cex_C16_AdmittedEventPersisted ==
  lastEvent.result # "none" =>
    \/ /\ lastEvent.result = "ok"
       /\ lastEvent.ncb = 1
       /\ lastEvent.nupdate = 1
       /\ current[lastEvent.key] = NewEvent
    \/ /\ lastEvent.result \in {"CallbackError", "PersistenceError"}
       /\ lastEvent.nupdate = 0

\* The room's latest tips: the PDUs held that no PDU held supersedes.
LatestPdus(held) == {x \in held : ~ \E y \in held : PrevOf(y) = x}

\* 1 + the maximum depth among the tips, 0 when there are none.
DescribedDepth(held) ==
  IF LatestPdus(held) = {} THEN 0
  ELSE 1 + CHOOSE d \in {PDU[x].depth : x \in LatestPdus(held)} :
             \A x \in LatestPdus(held) : PDU[x].depth <= d

\* One "<pdu_id>@<origin>" entry per tip.
DescribedPrevEvents(held) ==
  {PDU[x].pdu_id \o <<"@">> \o PDU[x].origin : x \in LatestPdus(held)}

\* C17 (draft filling before admission) as claimed: a handle_new_event call
\* whose persistence queries did not fail has reached its admission
\* callback, having assigned to the event the depth, the prev_events and
\* the prev_state_id / prev_state_origin described (no handle_new_state
\* call has been made since, so the store is the one the call saw).
Cex_C17_DraftFilledBeforeAdmission ==
  lastEvent.result \notin {"none", "PersistenceError"} =>
    /\ lastEvent.ncb >= 1
    /\ lastEvent.assigned =
         {"depth", "prev_events", "prev_state_id", "prev_state_origin"}
    /\ lastEvent.depth = DescribedDepth(have)
    /\ lastEvent.prev_events = DescribedPrevEvents(have)
    /\ current[lastEvent.key] # NoPdu =>
         /\ lastEvent.prev_state_id = PDU[current[lastEvent.key]].pdu_id
         /\ lastEvent.prev_state_origin = PDU[current[lastEvent.key]].origin

\* The tree persistence gives the call c in the present store.
FreshTree(c) == get_unresolved_state_tree(pdu[c], have, current[key[c]])

\* C18 (fetch-then-requery ordering): a call in progress holds its key's
\* lock; it has had one tree query answered per get_pdu issued, and one
\* more once it has a verdict; the tree of a call that waits on get_pdu is
\* the one of the present store; a get_pdu that succeeds leaves the call
\* waiting for a new tree query, with no verdict; and the verdict a call
\* ends with is that of the resolver on the tree queried in that step.
Thm_C18_FetchThenRequery ==
  /\ [](\A c \in Calls :
         /\ pc[c] \in {"tree", "fetch", "cb"} => Holds(c)
         /\ pc[c] \in {"tree", "fetch"} => ntree[c] = nfetch[c]
         /\ pc[c] = "cb" => ntree[c] = nfetch[c] + 1
         /\ pc[c] = "fetch" => tree[c] = FreshTree(c))
  /\ [](last.verdict \in Verdicts => last.ntree = last.nfetch + 1)
  /\ [][\A c \in Calls :
          /\ (pc[c] = "fetch" /\ pc'[c] # "fetch" /\ Requested(c) \in have')
               => /\ pc'[c] = "tree"
                  /\ last' = last
                  /\ ~fired'[c]
          /\ (pc[c] = "tree" /\ pc'[c] = "done"
                /\ last'.verdict \notin ExternalFailures)
               => /\ last'.call = c
                  /\ last'.tree = FreshTree(c)
                  /\ last'.verdict
                       = _handle_new_state(FreshTree(c)[1], FreshTree(c)[2]).out
          /\ (pc[c] = "tree" /\ pc'[c] = "cb")
               => /\ tree'[c] = FreshTree(c)
                  /\ _handle_new_state(FreshTree(c)[1], FreshTree(c)[2]).out
                       = "true"]_vars

\* A call has ended with a verdict after two get_pdu and three tree
\* queries, and its release has let in a call that waited for the key.
Wit_C18_TwoFetchesThenVerdict ==
  /\ last.verdict \in Verdicts
  /\ last.nfetch = 2
  /\ last.ntree = 3
  /\ Converged(last.tree)
  /\ last.woke # {}

\* C19: CurrentState is only changed under the slot's lock: every update of
\* a slot's CurrentState, handle_new_event's own or the one made by the
\* callback of handle_new_state, is made by a call that has acquired the
\* slot's lock and has not fired its release deferred.  So an update that a
\* callback has started and that is not applied yet belongs to a call on
\* its slot that still holds the lock.  The code breaks it: a callback that
\* returns the unfired Deferred of its update makes defer.maybeDeferred
\* raise TypeError (the Deferred is not callable), the finally clause fires
\* the release deferred, and the update is applied after that.
Cex_C19_UpdatesUnderLock ==
  \A n \in pending :
    \E c \in Calls : /\ kind[c] = "state"
                     /\ pdu[c] = n
                     /\ key[c] = PDU[n].key
                     /\ Holds(c)

\* C20: Stale PDU: when the branches converge, the new branch has length 1
\* and the current branch has length at least 2, handle_new_state completes
\* with false and not with an error, and the callback is not invoked.  The
\* code breaks it: _do_power_level_conflict_res takes max(new_branch[:-1])
\* of an empty list and raises ValueError.
Cex_C20_StaleReturnsFalse ==
  ( /\ last.call # NoCall
    /\ Converged(last.tree)
    /\ Len(last.tree[1]) = 1
    /\ Len(last.tree[2]) >= 2
    /\ last.verdict \notin ExternalFailures )
    => /\ last.result = "false"
       /\ last.ncb = 0
====
